---------------------------- MODULE Spec2Model ----------------------------
(***************************************************************************)
(* vdrplayer2: replay of an OpenCPN Data Monitor log (src/vdrplayer2/      *)
(* vdrplayer2.py).  The model covers MessageReader (the paced row          *)
(* iterator), MsgFormat (the per-protocol encoder) and the three           *)
(* transports TcpServer, UdpClient and SignalkServer.                      *)
(*                                                                         *)
(* Conventions.  A Python str is a sequence of one-character strings, a    *)
(* bytes object a sequence of integers 0..255.  A csv.DictReader row is a  *)
(* function from the field names of the header to strings.  Time is kept   *)
(* in whole milliseconds: the code's float(received_at) / 1000 seconds is  *)
(* the model's integer received_at, so a delay of d here is the code's     *)
(* time.sleep(d / 1000).  None is the empty tuple, a value v is <<v>>.     *)
(*                                                                         *)
(* A loop or a recursion of the code is a recursive function local to the  *)
(* operator that models it, and an operator that reads its argument more   *)
(* than once does so through a local function: TLC evaluates the argument  *)
(* of a function once, also where it evaluates ENABLED for a fairness      *)
(* condition.                                                              *)
(***************************************************************************)
EXTENDS Integers, Sequences, FiniteSets, TLC

----------------------------------------------------------------------------
(* Bounds of the model *)

\* longest log file, in data rows (the header line not counted)
MaxRows == 2
\* largest --count
MaxCount == 2
\* most websocket clients that connect to the SignalK server during a run
MaxClients == 2

----------------------------------------------------------------------------
(* Strings *)

\* the printable ASCII characters with code points 32..95, in order
AsciiLow ==
  <<
    " ", "!", "\"", "#", "$", "%", "&", "'", "(", ")", "*", "+",
    ",", "-", ".", "/", "0", "1", "2", "3", "4", "5", "6", "7",
    "8", "9", ":", ";", "<", "=", ">", "?", "@", "A", "B", "C",
    "D", "E", "F", "G", "H", "I", "J", "K", "L", "M", "N", "O",
    "P", "Q", "R", "S", "T", "U", "V", "W", "X", "Y", "Z", "[",
    "\\", "]", "^", "_"
  >>

\* the printable ASCII characters with code points 97..126, in order
AsciiHigh ==
  <<
    "a", "b", "c", "d", "e", "f", "g", "h", "i", "j", "k", "l",
    "m", "n", "o", "p", "q", "r", "s", "t", "u", "v", "w", "x",
    "y", "z", "{", "|", "}", "~"
  >>

CR == "\r"
LF == "\n"

\* the code point of a character (ASCII, where UTF-8 is one byte a character)
Ord(c) ==
  IF c = CR THEN 13
  ELSE IF c = LF THEN 10
  ELSE IF \E i \in 1..Len(AsciiLow) : AsciiLow[i] = c
       THEN 31 + (CHOOSE i \in 1..Len(AsciiLow) : AsciiLow[i] = c)
       ELSE 96 + (CHOOSE i \in 1..Len(AsciiHigh) : AsciiHigh[i] = c)

\* str.encode(): the UTF-8 bytes of an ASCII string
StrEncode(s) ==
  LET encode[x \in Seq(STRING)] == [i \in 1..Len(x) |-> Ord(x[i])]
  IN  encode[s]

\* str.lower() on one character: A..Z are code points 65..90, a..z 97..122
LowerChar(c) ==
  IF Ord(c) >= 65 /\ Ord(c) <= 90 THEN AsciiHigh[Ord(c) + 32 - 96] ELSE c

\* str.lower()
StrLower(s) ==
  LET lower[x \in Seq(STRING)] == [i \in 1..Len(x) |-> LowerChar(x[i])]
  IN  lower[s]

\* Python's (t in s) for strings: t occurs in s as a contiguous substring
StrIn(t, s) ==
  LET in[x \in Seq(STRING), y \in Seq(STRING)] ==
        \E i \in 0..(Len(y) - Len(x)) : SubSeq(y, i + 1, i + Len(x)) = x
  IN  in[t, s]

Digits == <<"0", "1", "2", "3", "4", "5", "6", "7", "8", "9">>

IsDigit(c) == \E i \in 1..10 : Digits[i] = c

DigitVal(c) == (CHOOSE i \in 1..10 : Digits[i] = c) - 1

\* the value of a string of decimal digits
DecVal(s) ==
  LET val[x \in Seq(STRING)] ==
        IF x = <<>> THEN 0
        ELSE 10 * val[SubSeq(x, 1, Len(x) - 1)] + DigitVal(x[Len(x)])
  IN  val[s]

\* float(s) succeeds.  The model knows the integer literals only: an
\* optional minus sign and one or more decimal digits; every other string
\* of the model ("abc", "", a column name) makes float() raise ValueError.
FloatOk(s) ==
  LET digits[x \in Seq(STRING)] ==
        x # <<>> /\ \A i \in 1..Len(x) : IsDigit(x[i])
  IN  digits[IF s # <<>> /\ s[1] = "-" THEN Tail(s) ELSE s]

\* float(s), for a string FloatOk accepts
FloatVal(s) ==
  IF s[1] = "-" THEN 0 - DecVal(Tail(s)) ELSE DecVal(s)

----------------------------------------------------------------------------
(* The log file *)

None == <<>>
Some(v) == <<v>>

\* the three columns the program reads
Columns == {"received_at", "protocol", "raw_data"}

\* a column name as the text of the header line
ColumnText(c) ==
  CASE c = "received_at" -> <<"r","e","c","e","i","v","e","d","_","a","t">>
    [] c = "protocol"    -> <<"p","r","o","t","o","c","o","l">>
    [] c = "raw_data"    -> <<"r","a","w","_","d","a","t","a">>

\* the header lines tried: all three columns, and files that lack some
ColSets ==
  { Columns,
    {"received_at", "raw_data"},
    {"protocol", "raw_data"},
    {"raw_data"},
    {"received_at", "protocol"} }

\* the values of args.messages / MessageReader.message_type
T0183 == <<"0","1","8","3">>
T2000 == <<"2","0","0","0">>
TSignalk == <<"s","i","g","n","a","l","k">>

\* protocol column values
P0183 == <<"P","G","N",",","0","1","8","3">>
P2000 == <<"N","M","E","A","2","0","0","0">>
PSignalK == <<"S","i","g","n","a","l","K">>

Protocols == {P0183, P2000, PSignalK}

\* received_at column values: three numbers and one that does not parse
ReceivedAts == { <<"0">>, <<"1","0","0","0">>, <<"2","5","0","0">>,
                 <<"a","b","c">> }

\* a logged NMEA 0183 sentence, its CR-LF written as the token <0D><0A>
Raw0183 ==
  <<"$","G","P","*","0","0","<","0","D",">","<","0","A",">">>

\* a logged NMEA 2000 frame: 13 header tokens (token 12 the payload size)
\* and the payload; ps = 01, pf = F0, byte 5 = 05
Raw2000 ==
  <<"0","0"," ","0","0"," ","0","0"," ","0","1"," ","F","0"," ","0","5"," ",
    "0","0"," ","0","0"," ","0","0"," ","0","0"," ","0","0"," ","0","0"," ",
    "0","2"," ","A","A"," ","B","B">>

\* a logged SignalK delta
RawSignalk == <<"{","\"","a","\"",":","1","}">>

RawOf(p) ==
  CASE p = P0183 -> Raw0183
    [] p = P2000 -> Raw2000
    [] OTHER     -> RawSignalk

\* the data rows a log file of the model is made of
RowPool ==
  { [received_at |-> r, protocol |-> p, raw_data |-> RawOf(p)] :
      r \in ReceivedAts, p \in Protocols }

\* a row as csv.DictReader builds it: the header's field names as keys
RowOf(cols, full) == [c \in cols |-> full[c]]

\* the header line read as a data row (after a rewind): each field holds
\* its own column name
HeaderRow(cols) == [c \in cols |-> ColumnText(c)]

\* the lines of a file: the header line, then the data rows
FileOf(cols, rows) ==
  <<HeaderRow(cols)>> \o [i \in 1..Len(rows) |-> RowOf(cols, rows[i])]

\* every log file of at most MaxRows data rows over RowPool
LogFiles ==
  { FileOf(cols, rows) :
      cols \in ColSets,
      rows \in UNION { [1..n -> RowPool] : n \in 0..MaxRows } }

----------------------------------------------------------------------------
(* String operations MsgFormat uses *)

\* str.endswith
EndsWith(s, suffix) ==
  LET ends[x \in Seq(STRING), y \in Seq(STRING)] ==
        Len(y) <= Len(x) /\ SubSeq(x, Len(x) - Len(y) + 1, Len(x)) = y
  IN  ends[s, suffix]

\* str.replace(old, new): every occurrence, left to right, not overlapping
StrReplace(s, old, new) ==
  LET rest[x \in Seq(STRING)] ==
        IF Len(x) < Len(old) \/ old = <<>> THEN x
        ELSE IF SubSeq(x, 1, Len(old)) = old
             THEN new \o rest[SubSeq(x, Len(old) + 1, Len(x))]
             ELSE <<x[1]>> \o rest[Tail(x)]
  IN  rest[s]

\* str.split(): the tokens between runs of blanks (the model's only
\* whitespace inside a field is the space)
StrSplit(s) ==
  LET tokens[x \in Seq(STRING)] ==
        IF x = <<>> THEN <<>>
        ELSE IF x[1] = " " THEN tokens[Tail(x)]
        ELSE LET n == IF \E k \in 1..Len(x) : x[k] = " "
                       THEN (CHOOSE k \in 1..Len(x) :
                               x[k] = " " /\ \A j \in 1..(k - 1) : x[j] # " ")
                            - 1
                       ELSE Len(x)
             IN  <<SubSeq(x, 1, n)>> \o tokens[SubSeq(x, n + 1, Len(x))]
  IN  tokens[s]

\* str.strip()
StrStrip(s) ==
  LET strip[x \in Seq(STRING)] ==
        IF x = <<>> THEN x
        ELSE IF x[1] = " " THEN strip[Tail(x)]
        ELSE IF x[Len(x)] = " " THEN strip[SubSeq(x, 1, Len(x) - 1)]
        ELSE x
  IN  strip[s]

\* the concatenation of a sequence of strings
StrJoin(ss) ==
  LET join[x \in Seq(Seq(STRING))] ==
        IF x = <<>> THEN <<>> ELSE x[1] \o join[Tail(x)]
  IN  join[ss]

HexDigits ==
  <<"0","1","2","3","4","5","6","7","8","9","A","B","C","D","E","F">>

HexLower == <<"a","b","c","d","e","f">>

IsHexDigit(c) ==
  (\E i \in 1..16 : HexDigits[i] = c) \/ (\E i \in 1..6 : HexLower[i] = c)

HexDigitVal(c) ==
  IF \E i \in 1..16 : HexDigits[i] = c
  THEN (CHOOSE i \in 1..16 : HexDigits[i] = c) - 1
  ELSE (CHOOSE i \in 1..6 : HexLower[i] = c) + 9

IsHex(s) ==
  LET hex[x \in Seq(STRING)] ==
        x # <<>> /\ \A i \in 1..Len(x) : IsHexDigit(x[i])
  IN  hex[s]

\* int(s, 16) of a string of hex digits
HexVal(s) ==
  LET val[x \in Seq(STRING)] ==
        IF x = <<>> THEN 0
        ELSE 16 * val[SubSeq(x, 1, Len(x) - 1)] + HexDigitVal(x[Len(x)])
  IN  val[s]

\* binascii.unhexlify accepts s: an even number of hex digits
UnhexOk(s) ==
  LET ok[x \in Seq(STRING)] ==
        Len(x) % 2 = 0 /\ \A i \in 1..Len(x) : IsHexDigit(x[i])
  IN  ok[s]

\* binascii.unhexlify(s): one byte for each pair of digits
Unhexlify(s) ==
  LET bytes[x \in Seq(STRING)] ==
        [i \in 1..(Len(x) \div 2) |->
           16 * HexDigitVal(x[2 * i - 1]) + HexDigitVal(x[2 * i])]
  IN  bytes[s]

\* format(n, "X"): upper-case hex, no padding
HexStr(n) ==
  LET str[x \in Nat] ==
        IF x < 16 THEN <<HexDigits[x + 1]>>
        ELSE str[x \div 16] \o <<HexDigits[(x % 16) + 1]>>
  IN  str[n]

\* format(n, "02X")
Hex2(n) == IF n < 16 THEN <<"0">> \o HexStr(n) ELSE HexStr(n)

\* str(n) of a natural number
DecStr(n) ==
  LET str[x \in Nat] ==
        IF x < 10 THEN <<Digits[x + 1]>>
        ELSE str[x \div 10] \o <<Digits[(x % 10) + 1]>>
  IN  str[n]

\* format(n, "02d")
Dec2(n) == IF n < 10 THEN <<"0">> \o DecStr(n) ELSE DecStr(n)

\* format(n, "03d")
Dec3(n) ==
  IF n < 10 THEN <<"0", "0">> \o DecStr(n)
  ELSE IF n < 100 THEN <<"0">> \o DecStr(n)
  ELSE DecStr(n)

\* a & b on natural numbers
BitAnd(a, b) ==
  LET and[x \in Nat, y \in Nat] ==
        IF x = 0 \/ y = 0 THEN 0
        ELSE (x % 2) * (y % 2) + 2 * and[x \div 2, y \div 2]
  IN  and[a, b]

\* a << n
ShiftLeft(a, n) ==
  LET shl[x \in Nat, k \in Nat] == IF k = 0 THEN x ELSE shl[2 * x, k - 1]
  IN  shl[a, n]

\* a >> n
ShiftRight(a, n) ==
  LET shr[x \in Nat, k \in Nat] == IF k = 0 THEN x ELSE shr[x \div 2, k - 1]
  IN  shr[a, n]

----------------------------------------------------------------------------
(* MsgFormat: one row to its wire form *)

\* the result of a call: a value, or the exception it raised
Ok(v) == [exc |-> "", val |-> v]
Raise(e) == [exc |-> e, val |-> <<>>]

\* the logged form of CR-LF, and CR-LF
CrLfToken == <<"<","0","D",">","<","0","A",">">>
CrLf == <<CR, LF>>

\* format_0183 translating the trailing token only, not every occurrence
format_0183_trailing_only(row) ==
  IF "raw_data" \notin DOMAIN row THEN Ok(<<>>)
  ELSE LET line == row["raw_data"]
       IN  IF EndsWith(line, CrLfToken)
           THEN Ok(SubSeq(line, 1, Len(line) - Len(CrLfToken)) \o CrLf)
           ELSE Ok(line)

format_0183(row) ==
  IF "raw_data" \notin DOMAIN row THEN Ok(<<>>)
  ELSE LET line == row["raw_data"]
       IN  IF EndsWith(line, CrLfToken)
           THEN Ok(StrReplace(line, CrLfToken, CrLf))
           ELSE Ok(line)

\* format_signalk as it would be if it appended CR-LF to the delta
format_signalk_crlf(row) ==
  IF "raw_data" \in DOMAIN row THEN Ok(row["raw_data"] \o CrLf) ELSE Ok(<<>>)

format_signalk(row) ==
  IF "raw_data" \in DOMAIN row THEN Ok(row["raw_data"]) ELSE Ok(<<>>)

\* prio = bytes_[5] & 0b011100 >> 2: Python's >> binds tighter than &, so
\* the mask is 0b011100 >> 2 = 0b111
N2kPrio(b5) == BitAnd(b5, ShiftRight(28, 2))

\* rdp = bytes_[5] & 0b011
N2kRdp(b5) == BitAnd(b5, 3)

\* N2kPgn without the PDU1 case: ps added whatever pf is
N2kPgn_always_ps(rdp, pf, ps) ==
  ShiftLeft(rdp, 16) + ShiftLeft(pf, 8) + ps

\* the PGN: PDU1 (pf < 240) leaves ps out, PDU2 adds it
N2kPgn(rdp, pf, ps) ==
  IF pf < 240
  THEN ShiftLeft(rdp, 16) + ShiftLeft(pf, 8) + 0
  ELSE ShiftLeft(rdp, 16) + ShiftLeft(pf, 8) + ps

\* a < b for two strings of decimal digits, leading zeros aside
DecLess(a, b) ==
  LET strip[x \in Seq(STRING)] ==
        IF Len(x) > 1 /\ x[1] = "0" THEN strip[Tail(x)] ELSE x
      less[x \in Seq(STRING), y \in Seq(STRING)] ==
        IF Len(x) # Len(y) THEN Len(x) < Len(y)
        ELSE IF x = <<>> THEN FALSE
        ELSE IF x[1] # y[1] THEN DigitVal(x[1]) < DigitVal(y[1])
        ELSE less[Tail(x), Tail(y)]
  IN  less[strip[a], strip[b]]

\* received_at of the first millisecond of the year 10000: datetime holds
\* no time from there on
YearLimit ==
  <<"2","5","3","4","0","2","3","0","0","8","0","0","0","0","0">>

\* received_at of 2^63 seconds: from there on the seconds do not fit the
\* platform's time_t
TimeTLimit ==
  <<"9","2","2","3","3","7","2","0","3","6","8","5","4","7","7","5","8","0",
    "8","0","0","0">>

\* the exception datetime.fromtimestamp(float(ms) / 1000, timezone.utc)
\* ends with, "" when it returns.  Past the year 9999 it raises ValueError
\* itself or an OSError that lines 179-180 turn into ValueError; past
\* time_t it raises OverflowError, which nothing turns into anything.  The
\* model's negative timestamps are small and convert.
fromtimestamp(ms) ==
  IF ms[1] = "-" \/ DecLess(ms, YearLimit) THEN ""
  ELSE IF DecLess(ms, TimeTLimit) THEN "ValueError"
  ELSE "OverflowError"

\* N2kTime counting the hours since the epoch, not those of the day
N2kTime_hours_not_wrapped(ms) ==
  Dec2(ms \div 3600000) \o Dec2((ms \div 60000) % 60)
    \o Dec2((ms \div 1000) % 60) \o <<".">> \o Dec3(ms % 1000)

\* the time of day of datetime.fromtimestamp(ms / 1000, timezone.utc) as
\* "HHMMSS.mmm", for a timestamp fromtimestamp converts.  The timestamps
\* the model formats are below 2^31 ms or not below YearLimit; a double
\* holds ms / 1000 to less than half a microsecond up to 2^33 seconds, so
\* int(hms.microsecond / 1000) is ms % 1000 there.
N2kTime(ms) ==
  Dec2((ms \div 3600000) % 24) \o Dec2((ms \div 60000) % 60)
    \o Dec2((ms \div 1000) % 60) \o <<".">> \o Dec3(ms % 1000)

\* bytes 3, 4, 5 of the frame and the fields made of them
N2kHeader(bytes_) ==
  LET header[b \in Seq(Nat)] ==
        LET ps   == b[4]
            pf   == b[5]
            rdp  == N2kRdp(b[6])
            prio == N2kPrio(b[6])
        IN  [ps |-> ps, pf |-> pf, prio |-> prio, pgn |-> N2kPgn(rdp, pf, ps)]
  IN  header[bytes_]

\* the payload: the payload_size tokens after token 12 (a slice, so fewer
\* when the row is short)
N2kPayload(tokens) ==
  LET payload[w \in Seq(Seq(STRING))] ==
        LET payload_size == HexVal(w[13])
            last == IF 13 + payload_size < Len(w)
                    THEN 13 + payload_size ELSE Len(w)
        IN  StrJoin(SubSeq(w, 14, last))
  IN  payload[tokens]

format_2000(row) ==
  IF DOMAIN row \cap {"received_at", "raw_data"} = {} THEN Ok(<<>>)
  ELSE IF "raw_data" \notin DOMAIN row THEN Raise("KeyError")
  ELSE
    \* digits: data.strip().replace(" ", ""); tokens: row["raw_data"].split()
    LET frame[digits \in Seq(STRING), tokens \in Seq(Seq(STRING))] ==
          \* binascii.Error is a ValueError
          IF ~UnhexOk(digits) THEN Raise("ValueError")
          ELSE IF Len(Unhexlify(digits)) < 6 THEN Raise("IndexError")
          ELSE IF "received_at" \notin DOMAIN row THEN Raise("KeyError")
          ELSE IF ~FloatOk(row["received_at"]) THEN Raise("ValueError")
          ELSE IF fromtimestamp(row["received_at"]) # ""
               THEN Raise(fromtimestamp(row["received_at"]))
          ELSE IF Len(tokens) < 13 THEN Raise("IndexError")
          ELSE IF ~IsHex(tokens[13]) THEN Raise("ValueError")
          ELSE
            LET h == N2kHeader(Unhexlify(digits))
            IN  Ok(<<"A">> \o N2kTime(FloatVal(row["received_at"]))
                   \o <<" ">> \o Hex2(h.ps) \o Hex2(h.pf) \o HexStr(h.prio)
                   \o <<" ">> \o HexStr(h.pgn) \o <<" ">>
                   \o N2kPayload(tokens) \o CrLf)
    IN  frame[StrReplace(StrStrip(row["raw_data"]), <<" ">>, <<>>),
              StrSplit(row["raw_data"])]

\* MsgFormat.format: the formatted row, encoded to bytes
MsgFormat_format(msg_type, row) ==
  LET encoded[r \in [exc : STRING, val : Seq(STRING)]] ==
        IF r.exc = "" THEN Ok(StrEncode(r.val)) ELSE r
  IN  encoded[CASE msg_type = T0183    -> format_0183(row)
                [] msg_type = TSignalk -> format_signalk(row)
                [] msg_type = T2000    -> format_2000(row)
                [] OTHER               -> Raise("NotImplementedError")]

----------------------------------------------------------------------------
(* State *)

VARIABLES
  args,        \* role, messages (= MessageReader.message_type), count
  logfile,     \* the lines of args.logfile: the header, then the data rows
  offset,      \* the file position of args.logfile, in lines read
  fieldnames,  \* csv.DictReader's field names: None until the header is read
  timestamp,   \* MessageReader.timestamp, the pacing clock (milliseconds)
  th,          \* the threads: 0 is the main thread, 1.. the handle_client calls
  net,         \* the listening socket and all_played_evt
  wire,        \* the messages each thread has sent to its peer, oldest first
  stderr,      \* the diagnostics printed to sys.stderr, oldest first
  yields,      \* history: the rows MessageReader has returned, oldest first
  enc          \* a MsgFormat with the row given to format() and the result

vars ==
  <<args, logfile, offset, fieldnames, timestamp, th, net, wire, stderr,
    yields, enc>>

Threads == 0..MaxClients
Handlers == 1..MaxClients

\* a thread that has not started
Idle ==
  [ pc      |-> "idle",
    i       |-> 0,        \* the pass, for i in range(count)
    row     |-> None,     \* the row in hand
    line    |-> 0,        \* the line of the file the row is
    pend    |-> None,     \* __next__'s local timestamp, not yet stored
    paced   |-> FALSE,    \* time.sleep was called for the row in hand
    delay   |-> 0,        \* the argument of that time.sleep
    lines   |-> 0,        \* _send_rows' counter of rows sent
    nyield  |-> 0,        \* rows __next__ has returned in this pass
    exc     |-> "",       \* the exception that ended the thread
    exc_at  |-> "" ]      \* where it was raised

----------------------------------------------------------------------------
(* MessageReader *)

\* csv.DictReader.__next__ on the LogFileReader: the first call reads the
\* header line as the field names; every call returns the next line as a
\* row keyed by them, or stops at the end of the file.  After a seek(0) the
\* header line is the next line, and is returned as a row.
DictReader_next(off, fn) ==
  LET first == fn = None /\ off < Len(logfile)
      off1  == IF first THEN off + 1 ELSE off
      fn1   == IF first THEN Some(DOMAIN logfile[off + 1]) ELSE fn
  IN  IF off1 < Len(logfile)
      THEN [stop |-> FALSE, off |-> off1 + 1, fn |-> fn1,
            row |-> [c \in fn1[1] |-> logfile[off1 + 1][c]]]
      ELSE [stop |-> TRUE, off |-> off1, fn |-> fn1, row |-> <<>>]

\* Matches without the lower(): the tag compared case-sensitively
Matches_case_sensitive(message_type, row) ==
  StrIn(message_type, row["protocol"])

\* self.message_type in row["protocol"].lower()
Matches(message_type, row) ==
  StrIn(message_type, StrLower(row["protocol"]))

\* if self.timestamp: None and 0.0 are both false
Truthy(ts) == ts # None /\ ts[1] # 0

\* what one call of __next__ comes to, up to its time.sleep:
\*   kind  "row" (a row to return), "StopIteration", or the exception raised
\*   off, fn   the file position and field names it leaves
\*   diag  the diagnostics it printed
\*   pend  the timestamp it parsed (None when received_at does not parse)
\*   paced, delay  whether it sleeps, and for how long
ReaderResult(kind, r, diag, pend, paced, delay) ==
  [kind |-> kind, off |-> r.off, fn |-> r.fn, row |-> r.row, diag |-> diag,
   pend |-> pend, paced |-> paced, delay |-> delay]

\* MessageReader_next without the protocol filter of lines 121-122
MessageReader_next_unfiltered(message_type, ts, off, fn, diag) ==
  LET loop[o \in Nat, f \in Seq(SUBSET STRING),
           d \in Seq(STRING \X Nat)] ==
        LET r == DictReader_next(o, f)
        IN
        IF r.stop THEN ReaderResult("StopIteration", r, d, None, FALSE, 0)
        ELSE IF DOMAIN r.row \cap {"received_at", "protocol"} = {}
        THEN loop[r.off, r.fn, Append(d, <<"Bad row", r.off>>)]
        ELSE IF "protocol" \notin DOMAIN r.row
        THEN ReaderResult("KeyError", r, d, None, FALSE, 0)
        ELSE IF "received_at" \notin DOMAIN r.row
        THEN ReaderResult("KeyError", r, d, None, FALSE, 0)
        ELSE IF ~FloatOk(r.row["received_at"])
        THEN ReaderResult("row", r, Append(d, <<"Bad timestamp", r.off>>),
                          None, FALSE, 0)
        ELSE
          LET t == FloatVal(r.row["received_at"])
          IN  IF ~Truthy(ts)
              THEN ReaderResult("row", r, d, Some(t), FALSE, 0)
              ELSE IF t - ts[1] < 0
              \* time.sleep raises ValueError for a negative length
              THEN ReaderResult("ValueError", r, d, None, TRUE, t - ts[1])
              ELSE ReaderResult("row", r, d, Some(t), TRUE, t - ts[1])
  IN  loop[off, fn, diag]

\* the loop of __next__ from file position off with field names fn, the
\* diagnostics printed so far being diag
MessageReader_next(message_type, ts, off, fn, diag) ==
  LET loop[o \in Nat, f \in Seq(SUBSET STRING),
           d \in Seq(STRING \X Nat)] ==
        LET r == DictReader_next(o, f)
        IN
        IF r.stop THEN ReaderResult("StopIteration", r, d, None, FALSE, 0)
        ELSE IF DOMAIN r.row \cap {"received_at", "protocol"} = {}
        THEN loop[r.off, r.fn, Append(d, <<"Bad row", r.off>>)]
        ELSE IF "protocol" \notin DOMAIN r.row
        THEN ReaderResult("KeyError", r, d, None, FALSE, 0)
        ELSE IF ~Matches(message_type, r.row)
        THEN loop[r.off, r.fn, d]
        ELSE IF "received_at" \notin DOMAIN r.row
        THEN ReaderResult("KeyError", r, d, None, FALSE, 0)
        ELSE IF ~FloatOk(r.row["received_at"])
        THEN ReaderResult("row", r, Append(d, <<"Bad timestamp", r.off>>),
                          None, FALSE, 0)
        ELSE
          LET t == FloatVal(r.row["received_at"])
          IN  IF ~Truthy(ts)
              THEN ReaderResult("row", r, d, Some(t), FALSE, 0)
              ELSE IF t - ts[1] < 0
              \* time.sleep raises ValueError for a negative length
              THEN ReaderResult("ValueError", r, d, None, TRUE, t - ts[1])
              ELSE ReaderResult("row", r, d, Some(t), TRUE, t - ts[1])
  IN  loop[off, fn, diag]

\* the thread failed with exception e, raised at `at`
Raised(t, e, at) ==
  [th EXCEPT ![t].pc = "raised", ![t].exc = e, ![t].exc_at = at]

\* Thread t calls self.rows.__next__() (the for statement of _send_rows, or
\* of any other loop over a MessageReader): lines 116-129, up to and
\* including the call of time.sleep.
Fetch(t) ==
  /\ th[t].pc = "next"
  /\ \E r \in {MessageReader_next(args.messages, timestamp, offset,
                                   fieldnames, <<>>)} :
         /\ offset' = r.off
         /\ fieldnames' = r.fn
         /\ stderr' = stderr \o r.diag
         /\ th' = CASE r.kind = "row" ->
                       [th EXCEPT ![t].pc = "row", ![t].row = Some(r.row),
                                  ![t].line = r.off, ![t].pend = r.pend,
                                  ![t].paced = r.paced, ![t].delay = r.delay]
                    [] r.kind = "StopIteration" ->
                       [th EXCEPT ![t].pc = "end"]
                    [] r.kind = "ValueError" ->
                       [Raised(t, r.kind, "sleep") EXCEPT
                          ![t].line = r.off, ![t].paced = r.paced,
                          ![t].delay = r.delay]
                    [] OTHER ->
                       [Raised(t, r.kind, "reader") EXCEPT ![t].line = r.off]
  /\ UNCHANGED <<args, logfile, timestamp, net, wire, yields, enc>>

\* the pacing clock after __next__ returns the row thread t holds: line 130
\* for a row whose timestamp parsed, unchanged for one returned at line 127
ClockAfter(t) == IF th[t].pend # None THEN th[t].pend ELSE timestamp

\* the history entry of the row thread t holds
Yielded(t) ==
  [line |-> th[t].line, row |-> th[t].row[1], paced |-> th[t].paced,
   delay |-> th[t].delay, first |-> th[t].nyield = 0]

\* A plain loop `for row in message_reader` takes the row: __next__ wakes
\* from its sleep, stores the timestamp and returns (lines 130-131).
Take(t) ==
  /\ args.role = "reader"
  /\ th[t].pc = "row"
  /\ timestamp' = ClockAfter(t)
  /\ yields' = Append(yields, Yielded(t))
  /\ th' = [th EXCEPT ![t].pc = "next", ![t].row = None, ![t].line = 0,
                      ![t].pend = None, ![t].paced = FALSE, ![t].delay = 0,
                      ![t].nyield = @ + 1]
  /\ UNCHANGED <<args, logfile, offset, fieldnames, net, wire, stderr, enc>>

----------------------------------------------------------------------------
(* MessageReader on its own: one loop over one file *)

\* no socket yet: sock is the listening socket ("none", "listening",
\* "closed"), conn[t] thread t's connection to its peer ("none", "open",
\* "gone" once the peer has left, "closed" once the program closed it)
NoNet ==
  [sock |-> "none", conn |-> [t \in Threads |-> "none"],
   all_played_evt |-> FALSE]
NoEnc == [msg_type |-> <<>>, row |-> <<>>, called |-> FALSE, rv |-> Ok(<<>>)]

InitReader ==
  /\ args \in [role : {"reader"}, messages : {T0183, T2000, TSignalk},
               count : {1}]
  /\ logfile \in LogFiles
  /\ offset = 0
  /\ fieldnames = None
  /\ timestamp = None
  /\ th = [t \in Threads |-> IF t = 0 THEN [Idle EXCEPT !.pc = "next"]
                             ELSE Idle]
  /\ net = NoNet
  /\ wire = [t \in Threads |-> <<>>]
  /\ stderr = <<>>
  /\ yields = <<>>
  /\ enc = NoEnc

NextReader == Fetch(0) \/ Take(0)

SpecReader == InitReader /\ [][NextReader]_vars

----------------------------------------------------------------------------
(* The transports *)

\* the state every role starts main() in, the main thread at pc
InitPlay(role, types, files, pc) ==
  /\ args \in [role : {role}, messages : types, count : 1..MaxCount]
  /\ logfile \in files
  /\ offset = 0
  /\ fieldnames = None
  /\ timestamp = None
  /\ th = [t \in Threads |-> IF t = 0 THEN [Idle EXCEPT !.pc = pc] ELSE Idle]
  /\ net = NoNet
  /\ wire = [t \in Threads |-> <<>>]
  /\ stderr = <<>>
  /\ yields = <<>>
  /\ enc = NoEnc

\* the thread that plays the file: the main thread, or a handle_client
Plays(t) == IF args.role = "signalk" THEN t \in Handlers ELSE t = 0

\* A pass begins: `for i in range(count)` prints "Playing file" and calls
\* _send_rows, which zeroes its counter.
BeginPass(t) ==
  /\ Plays(t)
  /\ th[t].pc = "pass"
  /\ th' = [th EXCEPT ![t].pc = "next", ![t].lines = 0, ![t].nyield = 0]
  /\ UNCHANGED <<args, logfile, offset, fieldnames, timestamp, net, wire,
                 stderr, yields, enc>>

\* whether _send_rows catches exception e of formatter.format: only
\* SignalkServer has a try, and it names ValueError
Caught(role, e) == role = "signalk" /\ e = "ValueError"

\* a message on the wire: the bytes sent, with the pass and the line of the
\* file they were sent for
Sent(t, data) == [pass |-> th[t].i, line |-> th[t].line, data |-> data]

\* The body of _send_rows' loop for the row __next__ returns: __next__
\* stores the timestamp and returns (lines 130-131), the row is formatted
\* and sent, and the counter goes up.
Deliver(t) ==
  /\ Plays(t)
  /\ th[t].pc = "row"
  /\ timestamp' = ClockAfter(t)
  /\ \E r \in {MsgFormat_format(args.messages, th[t].row[1])} :
     LET got == [th EXCEPT ![t].row = None, ![t].line = 0,
                           ![t].pend = None, ![t].paced = FALSE,
                           ![t].delay = 0, ![t].nyield = @ + 1]
     IN  IF r.exc = "" /\ net.conn[t] = "gone"
         \* send on a connection the peer has left raises a connection
         \* error (an OSError, websockets' ConnectionClosed): no ValueError
         THEN /\ th' = [got EXCEPT ![t].pc = "raised",
                                   ![t].exc = "ConnectionError",
                                   ![t].exc_at = "send"]
              /\ UNCHANGED <<wire, stderr>>
         ELSE IF r.exc = ""
         THEN /\ wire' = [wire EXCEPT ![t] = Append(@, Sent(t, r.val))]
              /\ th' = [got EXCEPT ![t].pc = "next", ![t].lines = @ + 1]
              /\ stderr' = stderr
         ELSE IF Caught(args.role, r.exc)
         THEN /\ stderr' = Append(stderr, <<"bad logfile row", th[t].line>>)
              /\ th' = [got EXCEPT ![t].pc = "next"]
              /\ wire' = wire
         ELSE /\ th' = [got EXCEPT ![t].pc = "raised", ![t].exc = r.exc,
                                   ![t].exc_at = "format"]
              /\ UNCHANGED <<wire, stderr>>
  /\ UNCHANGED <<args, logfile, offset, fieldnames, net, yields, enc>>

\* EndPass without args.logfile.seek(0): the file stays at its end
EndPass_no_seek(t) ==
  /\ Plays(t)
  /\ th[t].pc = "end"
  /\ offset' = offset
  /\ timestamp' = None
  /\ th' = [th EXCEPT ![t].i = @ + 1, ![t].lines = 0, ![t].nyield = 0,
                      ![t].pc = IF th[t].i + 1 < args.count THEN "pass"
                                ELSE "played"]
  /\ UNCHANGED <<args, logfile, fieldnames, net, wire, stderr, yields, enc>>

\* _send_rows returns; the file is rewound and the pacing clock reset; the
\* next pass follows, or the loop is over.
EndPass(t) ==
  /\ Plays(t)
  /\ th[t].pc = "end"
  /\ offset' = 0
  /\ timestamp' = None
  /\ th' = [th EXCEPT ![t].i = @ + 1, ![t].lines = 0, ![t].nyield = 0,
                      ![t].pc = IF th[t].i + 1 < args.count THEN "pass"
                                ELSE "played"]
  /\ UNCHANGED <<args, logfile, fieldnames, net, wire, stderr, yields, enc>>

\* The peer of thread t leaves while a row is being sent: the send on the
\* connection raises.  (A peer that leaves earlier shows at the next send
\* all the same; one that leaves after the last send is not modelled.)
Peer_disconnect(t) ==
  /\ net.conn[t] = "open"
  /\ th[t].pc = "row"
  /\ net' = [net EXCEPT !.conn[t] = "gone"]
  /\ UNCHANGED <<args, logfile, offset, fieldnames, timestamp, th, wire,
                 stderr, yields, enc>>

\* TcpServer.__init__ up to the accept: the socket listens and one client
\* connects.
Tcp_accept ==
  /\ args.role = "tcp"
  /\ th[0].pc = "accept"
  /\ net' = [net EXCEPT !.sock = "listening", !.conn[0] = "open"]
  /\ th' = [th EXCEPT ![0].pc = "pass"]
  /\ UNCHANGED <<args, logfile, offset, fieldnames, timestamp, wire, stderr,
                 yields, enc>>

\* TcpServer._close
Tcp_close ==
  /\ args.role = "tcp"
  /\ th[0].pc = "played"
  /\ net' = [net EXCEPT !.sock = "closed", !.conn[0] = "closed"]
  /\ th' = [th EXCEPT ![0].pc = "done"]
  /\ UNCHANGED <<args, logfile, offset, fieldnames, timestamp, wire, stderr,
                 yields, enc>>

\* UdpClient.__init__ returns after the last pass
Udp_done ==
  /\ args.role = "udp"
  /\ th[0].pc = "played"
  /\ th' = [th EXCEPT ![0].pc = "done"]
  /\ UNCHANGED <<args, logfile, offset, fieldnames, timestamp, net, wire,
                 stderr, yields, enc>>

InitTcp == InitPlay("tcp", {T0183, T2000}, LogFiles, "accept")

NextTcp ==
  \/ Tcp_accept
  \/ BeginPass(0)
  \/ Fetch(0)
  \/ Deliver(0)
  \/ EndPass(0)
  \/ Tcp_close

SpecTcp == InitTcp /\ [][NextTcp]_vars

InitUdp == InitPlay("udp", {T0183, T2000}, LogFiles, "pass")

NextUdp ==
  \/ BeginPass(0)
  \/ Fetch(0)
  \/ Deliver(0)
  \/ EndPass(0)
  \/ Udp_done

SpecUdp == InitUdp /\ [][NextUdp]_vars

----------------------------------------------------------------------------
(* SignalkServer *)

\* SignalkServer.run starts the websocket server in a thread and waits for
\* all_played_evt.
Sk_serve ==
  /\ args.role = "signalk"
  /\ th[0].pc = "run"
  /\ net' = [net EXCEPT !.sock = "listening"]
  /\ th' = [th EXCEPT ![0].pc = "wait"]
  /\ UNCHANGED <<args, logfile, offset, fieldnames, timestamp, wire, stderr,
                 yields, enc>>

\* A client connects.  serve_forever accepts every connection made while the
\* socket listens and runs handle_client for it in a thread of its own;
\* the handlers are numbered in the order of their connections.
Sk_connect(t) ==
  /\ args.role = "signalk"
  /\ net.sock = "listening"
  /\ th[t].pc = "idle"
  /\ \A u \in Handlers : u < t => th[u].pc # "idle"
  /\ net' = [net EXCEPT !.conn[t] = "open"]
  /\ th' = [th EXCEPT ![t].pc = "pass"]
  /\ UNCHANGED <<args, logfile, offset, fieldnames, timestamp, wire, stderr,
                 yields, enc>>

\* handle_client after its loop: print("All played"); websocket.close()
Sk_close(t) ==
  /\ args.role = "signalk"
  /\ t \in Handlers
  /\ th[t].pc = "played"
  /\ net' = [net EXCEPT !.conn[t] = "closed"]
  /\ th' = [th EXCEPT ![t].pc = "closed"]
  /\ UNCHANGED <<args, logfile, offset, fieldnames, timestamp, wire, stderr,
                 yields, enc>>

\* handle_client returning without all_played_evt.set()
Sk_set_skipped(t) ==
  /\ args.role = "signalk"
  /\ t \in Handlers
  /\ th[t].pc = "closed"
  /\ net' = net
  /\ th' = [th EXCEPT ![t].pc = "done"]
  /\ UNCHANGED <<args, logfile, offset, fieldnames, timestamp, wire, stderr,
                 yields, enc>>

\* self.all_played_evt.set()
Sk_set(t) ==
  /\ args.role = "signalk"
  /\ t \in Handlers
  /\ th[t].pc = "closed"
  /\ net' = [net EXCEPT !.all_played_evt = TRUE]
  /\ th' = [th EXCEPT ![t].pc = "done"]
  /\ UNCHANGED <<args, logfile, offset, fieldnames, timestamp, wire, stderr,
                 yields, enc>>

\* run wakes from all_played_evt.wait(), shuts the server down and joins
\* the serve_forever thread.
Sk_shutdown ==
  /\ args.role = "signalk"
  /\ th[0].pc = "wait"
  /\ net.all_played_evt
  /\ net' = [net EXCEPT !.sock = "closed"]
  /\ th' = [th EXCEPT ![0].pc = "done"]
  /\ UNCHANGED <<args, logfile, offset, fieldnames, timestamp, wire, stderr,
                 yields, enc>>

\* The log files played in the signalk role.  MessageReader skips every
\* row whose protocol does not hold "signalk" inside one call of __next__,
\* so one such protocol stands for all of them; the files have the
\* protocol column, and lack received_at, raw_data or neither.
SignalkLogFiles ==
  { FileOf(cols, rows) :
      cols \in { Columns, {"protocol", "raw_data"},
                 {"received_at", "protocol"} },
      rows \in UNION { [1..n -> { r \in RowPool :
                                    /\ r.protocol \in {PSignalK, P0183}
                                    /\ r.received_at # <<"0">> }]
                       : n \in 0..MaxRows } }

InitSignalk == InitPlay("signalk", {TSignalk}, SignalkLogFiles, "run")

NextSignalk ==
  \/ Sk_serve
  \/ Sk_shutdown
  \/ \E t \in Handlers :
       \/ Sk_connect(t)
       \/ BeginPass(t)
       \/ Fetch(t)
       \/ Deliver(t)
       \/ EndPass(t)
       \/ Sk_close(t)
       \/ Sk_set(t)

SpecSignalk == InitSignalk /\ [][NextSignalk]_vars

----------------------------------------------------------------------------
(* main: any of the three roles, played for one peer *)

\* The log files played under SpecMain: all three columns, rows of every
\* protocol, timestamps in and out of order and one that does not parse.
MainLogFiles ==
  { FileOf(Columns, rows) :
      rows \in UNION { [1..n -> { r \in RowPool : r.received_at # <<"0">> }]
                       : n \in 0..MaxRows } }

\* main() after get_args: the role decides the transport (lines 386-391),
\* and the signalk role forces messages to "signalk" (lines 370-371)
InitMain ==
  \/ InitPlay("tcp", {T2000}, MainLogFiles, "accept")
  \/ InitPlay("udp", {T0183}, MainLogFiles, "pass")
  \/ InitPlay("signalk", {TSignalk}, MainLogFiles, "run")

\* the thread that plays the file when one peer connects: the main thread,
\* or the handle_client of that peer
Player == IF args.role = "signalk" THEN 1 ELSE 0

\* the steps of the program and the arrival of its peer
Runs ==
  \/ Tcp_accept
  \/ Tcp_close
  \/ Udp_done
  \/ Sk_serve
  \/ Sk_connect(1)
  \/ Sk_close(1)
  \/ Sk_set(1)
  \/ Sk_shutdown
  \/ BeginPass(Player)
  \/ Fetch(Player)
  \/ Deliver(Player)
  \/ EndPass(Player)

NextMain == Runs \/ Peer_disconnect(Player)

\* Every thread that can run does run (the threads are scheduled by the
\* operating system, and a blocked accept or wait returns once its
\* condition holds), and the peer the run is for connects.  Nothing obliges
\* the peer to leave.
SpecMain == InitMain /\ [][NextMain]_vars /\ WF_vars(Runs)

----------------------------------------------------------------------------
(* MsgFormat on its own: format() applied to one row *)

\* the text of an NMEA 2000 frame whose bytes 3, 4, 5 are ps, pf and b5:
\* three bytes before them, six after, a payload size of 02 and two
\* payload bytes
N2kRaw(ps, pf, b5) ==
  <<"0","0"," ","0","0"," ","0","0"," ">>
    \o Hex2(ps) \o <<" ">> \o Hex2(pf) \o <<" ">> \o Hex2(b5)
    \o <<" ","0","0"," ","0","0"," ","0","0"," ","0","0"," ","0","0"," ",
         "0","0"," ","0","2"," ","A","A"," ","B","B">>

\* rows for the NMEA 2000 encoder: every value of byte 5, pf on both sides
\* of the PDU1/PDU2 border at 240, three values of ps
N2kRows ==
  { [received_at |-> <<"2","5","0","0">>, protocol |-> P2000,
     raw_data |-> N2kRaw(ps, pf, b5)] :
      ps \in {0, 1, 255}, pf \in {48, 239, 240, 255}, b5 \in 0..255 }

\* frames the NMEA 2000 encoder cannot read: not hex, an odd digit count,
\* fewer than six bytes, fewer than thirteen tokens
BadN2kRows ==
  { [received_at |-> <<"1","0","0","0">>, protocol |-> P2000, raw_data |-> d] :
      d \in { <<"Z","Z">>, <<"0","0"," ","0">>, <<"0","0"," ","0","1">>,
              <<"0","0","0","0","0","0","0","1","F","0","0","5">> } }

\* logged NMEA 0183 lines with the token <0D><0A> at the end, inside, at
\* both places and nowhere: "$A" and "$B" joined and ended by the token,
\* by nothing or by a real CR-LF
Lines0183 ==
  { <<"$","A">> \o mid \o <<"$","B">> \o last :
      mid \in {<<>>, CrLfToken}, last \in {<<>>, CrLfToken, CrLf} }
    \cup {<<>>, CrLfToken}

Rows0183 ==
  { [received_at |-> <<"1","0","0","0">>, protocol |-> P0183, raw_data |-> d] :
      d \in Lines0183 }

\* received_at values for the NMEA 2000 encoder: both sides of every
\* carry of the clock (second, minute, hour, day), the largest the model
\* computes with, and four that datetime does not hold: the first
\* millisecond of the year 10000, 9 * 10^18, 9 * 10^19 and 2^63 seconds
N2kTimes ==
  { DecStr(ms) :
      ms \in { 0, 5, 999, 1000, 59999, 60000, 3599999, 3600000, 86399999,
               86400000, 90061001, 2147483647 } }
    \cup { YearLimit, TimeTLimit,
           <<"9">> \o [i \in 1..18 |-> "0"], <<"9">> \o [i \in 1..19 |-> "0"] }

TimedN2kRows ==
  { [received_at |-> r, protocol |-> P2000, raw_data |-> Raw2000] :
      r \in N2kTimes }

\* the text of an NMEA 2000 frame with payload size `size` in token 12 and
\* the tokens `payload` after it
N2kRawSized(size, payload) ==
  <<"0","0"," ","0","0"," ","0","0"," ","0","1"," ","F","0"," ","0","5"," ",
    "0","0"," ","0","0"," ","0","0"," ","0","0"," ","0","0"," ","0","0"," ">>
    \o Hex2(size)
    \o StrJoin([i \in 1..Len(payload) |-> <<" ">> \o payload[i]])

\* frames that hold as many payload tokens as token 12 says, more, and
\* fewer; one with lower-case digits
SizedN2kRows ==
  { [received_at |-> <<"2","5","0","0">>, protocol |-> P2000,
     raw_data |-> N2kRawSized(size, payload)] :
      size \in {0, 1, 2, 3, 8},
      payload \in { <<>>, << <<"A","A">> >>, << <<"A","A">>, <<"B","B">> >>,
                    << <<"a","a">>, <<"B","B">>, <<"C","C">> >> } }

InitEnc ==
  /\ \/ \E m \in {T0183, T2000, TSignalk}, cols \in ColSets,
          r \in RowPool \cup BadN2kRows :
          enc = [NoEnc EXCEPT !.msg_type = m, !.row = RowOf(cols, r)]
     \/ \E r \in N2kRows \cup TimedN2kRows \cup SizedN2kRows :
          enc = [NoEnc EXCEPT !.msg_type = T2000, !.row = r]
     \/ \E r \in Rows0183 :
          enc = [NoEnc EXCEPT !.msg_type = T0183, !.row = r]
  /\ args = [role |-> "format", messages |-> enc.msg_type, count |-> 1]
  /\ logfile = <<>>
  /\ offset = 0
  /\ fieldnames = None
  /\ timestamp = None
  /\ th = [t \in Threads |-> Idle]
  /\ net = NoNet
  /\ wire = [t \in Threads |-> <<>>]
  /\ stderr = <<>>
  /\ yields = <<>>

\* formatter.format(row) is called
Format ==
  /\ args.role = "format"
  /\ ~enc.called
  /\ enc' = [enc EXCEPT !.called = TRUE,
                        !.rv = MsgFormat_format(enc.msg_type, enc.row)]
  /\ UNCHANGED <<args, logfile, offset, fieldnames, timestamp, th, net,
                 wire, stderr, yields>>

NextEnc == Format

SpecEnc == InitEnc /\ [][NextEnc]_vars

----------------------------------------------------------------------------
(* Properties of MessageReader, checked under SpecReader *)

\* received_at of a yielded row parses as a number
Parses(row) == "received_at" \in DOMAIN row /\ FloatOk(row["received_at"])

\* that number, in milliseconds
ReceivedAt(row) == FloatVal(row["received_at"])

\* C1: for consecutive yielded rows whose received_at parse and strictly
\* increase (a predecessor at 0 included), the delay slept before the later
\* row is received_at[n] - received_at[n-1] (milliseconds here, / 1000
\* seconds in the code).
C1_DelayIsTimestampGap ==
  \A n \in 2..Len(yields) :
    LET a == yields[n - 1].row
        b == yields[n].row
    IN  (Parses(a) /\ Parses(b) /\ ReceivedAt(a) < ReceivedAt(b))
          => yields[n].delay = ReceivedAt(b) - ReceivedAt(a)

\* C1, the part the code keeps: the same with a predecessor whose
\* received_at is not 0.
C1_DelayIsTimestampGapAfterNonzero ==
  \A n \in 2..Len(yields) :
    LET a == yields[n - 1].row
        b == yields[n].row
    IN  (Parses(a) /\ Parses(b) /\ ReceivedAt(a) < ReceivedAt(b)
           /\ ReceivedAt(a) # 0)
          => yields[n].delay = ReceivedAt(b) - ReceivedAt(a)

\* C2: a matching row whose received_at is smaller than or equal to that of
\* the previous yielded row is yielded with a delay of max(0, delta) = 0,
\* and no error is raised to the caller.
C2_NoDelayNoErrorWhenNotLater ==
  /\ \A n \in 2..Len(yields) :
       LET a == yields[n - 1].row
           b == yields[n].row
       IN  (Parses(a) /\ Parses(b) /\ ReceivedAt(b) <= ReceivedAt(a))
             => yields[n].delay = 0
  /\ ~(th[0].pc = "raised" /\ th[0].exc_at = "sleep")

\* C4: MessageReader never raises to its caller because of a malformed row
\* (one that lacks received_at, protocol or both, or whose received_at does
\* not parse): iteration ends only by exhaustion of the source.
C4_MalformedRowNeverRaises ==
  ~(th[0].pc = "raised" /\ th[0].exc_at = "reader")

\* the lines of the file MessageReader has returned, or holds, or failed on
\* after its protocol filter let them through
LinesLetThrough ==
  { yields[n].line : n \in 1..Len(yields) }
    \cup (IF th[0].pc \in {"row", "raised"} THEN {th[0].line} ELSE {})

\* the target tag is a substring of the row's protocol field lowercased
TagInProtocol(row) ==
  /\ "protocol" \in DOMAIN row
  /\ \E i \in 1..Len(row["protocol"]) :
       /\ i + Len(args.messages) - 1 <= Len(row["protocol"])
       /\ \A j \in 1..Len(args.messages) :
            LowerChar(row["protocol"][i + j - 1]) = args.messages[j]

\* C5: MessageReader yields a row only if the target tag is a substring of
\* the row's protocol field lowercased and skips every row for which it is
\* not; protocol "PGN,0183" with tag "0183" and protocol "SignalK" with tag
\* "signalk" are both accepted.
C5_YieldsOnlyMatching ==
  /\ \A n \in 1..Len(yields) : TagInProtocol(yields[n].row)
  /\ th[0].pc = "row" => TagInProtocol(th[0].row[1])
  /\ \A k \in 2..offset :
       ("protocol" \in DOMAIN logfile[k] /\ ~TagInProtocol(logfile[k]))
         => k \notin LinesLetThrough
  /\ \A k \in 2..offset :
       ( /\ "protocol" \in DOMAIN logfile[k]
         /\ \/ logfile[k]["protocol"] = P0183 /\ args.messages = T0183
            \/ logfile[k]["protocol"] = PSignalK /\ args.messages = TSignalk )
         => k \in LinesLetThrough

\* C5 witness: a "SignalK" row has been yielded for the tag "signalk" after
\* a row of another protocol was skipped.
C5_Witness ==
  /\ args.messages = TSignalk
  /\ \E n \in 1..Len(yields) :
       /\ yields[n].row["protocol"] = PSignalK
       /\ \E k \in 2..(yields[n].line - 1) :
            /\ "protocol" \in DOMAIN logfile[k]
            /\ ~TagInProtocol(logfile[k])
            /\ k \notin LinesLetThrough

\* the yielded rows whose received_at parsed, by their place in yields
ParsedYields == { n \in 1..Len(yields) : Parses(yields[n].row) }

\* the most recent of them before place n
LastParsedBefore(n) ==
  CHOOSE m \in ParsedYields :
    m < n /\ \A k \in ParsedYields : k < n => k <= m

\* a yielded row whose received_at does not parse was not delayed, and the
\* pacing clock is unset or holds received_at of the most recent yielded
\* row whose received_at parsed
ClockIsLastParsedYield ==
  /\ \A n \in 1..Len(yields) :
       ~Parses(yields[n].row) => (~yields[n].paced /\ yields[n].delay = 0)
  /\ IF ParsedYields = {} THEN timestamp = None
     ELSE timestamp =
            Some(ReceivedAt(yields[LastParsedBefore(Len(yields) + 1)].row))

\* a yielded row whose received_at parsed was paced against the most
\* recent yielded row before it whose received_at parsed: it was delayed
\* by the time between the two
PacedAgainstLastParsedYield ==
  \A n \in ParsedYields :
    (\E m \in ParsedYields : m < n) =>
      yields[n].delay =
        ReceivedAt(yields[n].row)
          - ReceivedAt(yields[LastParsedBefore(n)].row)

\* C20: a matching row whose received_at does not parse is yielded without
\* any delay and leaves the pacing clock unchanged, and rows skipped by the
\* protocol filter leave it unchanged too: at every point in a pass
\* MessageReader.timestamp is either unset or equals received_at / 1000 of
\* the most recent yielded row with a parseable timestamp, so the next
\* well-formed row is paced against that row.
C20_UnparsedRowLeavesClock ==
  /\ ClockIsLastParsedYield
  /\ PacedAgainstLastParsedYield

----------------------------------------------------------------------------
(* Properties of MsgFormat, checked under SpecEnc *)

\* format() has returned the encoding of an NMEA 2000 frame
Encoded2000 ==
  /\ enc.called
  /\ enc.msg_type = T2000
  /\ enc.rv.exc = ""
  /\ enc.rv.val # <<>>

\* byte n (counted from 0) of the frame given to format()
FrameByte(n) ==
  LET digits == StrReplace(StrStrip(enc.row["raw_data"]), <<" ">>, <<>>)
  IN  16 * HexDigitVal(digits[2 * n + 1]) + HexDigitVal(digits[2 * n + 2])

\* the code point of the hex digit of d, 0..15: "0".."9" are 48..57 and
\* "A".."F" are 65..70
HexDigitCode(d) == IF d < 10 THEN 48 + d ELSE 55 + d

\* C6: for every value of byte[5] the priority field format_2000 emits is
\* (byte[5] & 0b011100) >> 2; byte[5] = 0b00000101 gives prio = 1.  The
\* field is the one hex digit after "Ahhmmss.mmm pspf", the 17th byte.
C6_PrioIsBits2to4 ==
  Encoded2000 =>
    /\ enc.rv.val[17] = HexDigitCode((FrameByte(5) \div 4) % 8)
    /\ FrameByte(5) = 5 => enc.rv.val[17] = 49

RECURSIVE BitOr(_, _)
\* a | b on natural numbers
BitOr(a, b) ==
  IF a = 0 THEN b
  ELSE IF b = 0 THEN a
  ELSE (IF a % 2 = 1 \/ b % 2 = 1 THEN 1 ELSE 0)
         + 2 * BitOr(a \div 2, b \div 2)

\* the PGN the claim gives for the frame: rdp = byte[5] & 3
ClaimedPgn ==
  LET ps  == FrameByte(3)
      pf  == FrameByte(4)
      rdp == FrameByte(5) % 4
  IN  IF pf < 240
      THEN BitOr(rdp * 65536, pf * 256)
      ELSE BitOr(BitOr(rdp * 65536, pf * 256), ps)

RECURSIVE HexCodes(_)
\* the code points of n in upper-case hex without padding
HexCodes(n) ==
  IF n < 16 THEN <<HexDigitCode(n)>>
  ELSE HexCodes(n \div 16) \o <<HexDigitCode(n % 16)>>

\* the encoded frame holds `field` from its 19th byte on, a blank before
\* and after it: the PGN field follows "Ahhmmss.mmm pspfp "
PgnFieldIs(field) ==
  /\ enc.rv.val[18] = 32
  /\ SubSeq(enc.rv.val, 19, 18 + Len(field)) = field
  /\ enc.rv.val[19 + Len(field)] = 32

\* C7: for all ps, pf and rdp = byte[5] & 3, the PGN format_2000 emits is
\* (rdp << 16) | (pf << 8) when pf < 240, whatever ps is, and
\* (rdp << 16) | (pf << 8) | ps otherwise; for ps = 0x01, pf = 0xF0,
\* byte[5] = 0b101 the field reads 1F001.
C7_PgnField ==
  Encoded2000 =>
    /\ PgnFieldIs(HexCodes(ClaimedPgn))
    /\ (FrameByte(3) = 1 /\ FrameByte(4) = 240 /\ FrameByte(5) = 5)
         => PgnFieldIs(<<49, 70, 48, 48, 49>>)

\* C7 witness: a PDU1 frame (pf < 240) with a non-zero ps has been encoded,
\* and its PGN field leaves ps out.
C7_Witness ==
  /\ Encoded2000
  /\ FrameByte(4) = 48
  /\ FrameByte(3) = 255
  /\ FrameByte(5) = 5
  /\ PgnFieldIs(<<49, 51, 48, 48, 48>>)

\* format() has returned for a signalk row that has raw_data
FormattedSignalk ==
  /\ enc.called
  /\ enc.msg_type = TSignalk
  /\ "raw_data" \in DOMAIN enc.row

\* C8 as claimed: for messageKind signalk, format returns the row's
\* raw_data followed by CR-LF (bytes 13, 10), as bytes.
C8_SignalkAppendsCrLf ==
  FormattedSignalk =>
    /\ enc.rv.exc = ""
    /\ enc.rv.val = StrEncode(enc.row["raw_data"]) \o <<13, 10>>

\* C8 as amended: for messageKind signalk, format returns the row's
\* raw_data unchanged, with no CR-LF appended, as bytes; the delta {"a":1}
\* comes out as the seven bytes 7B 22 61 22 3A 31 7D.
C8_SignalkRawDataUnchanged ==
  FormattedSignalk =>
    /\ enc.rv.exc = ""
    /\ enc.rv.val = StrEncode(enc.row["raw_data"])
    /\ enc.row["raw_data"] = RawSignalk
         => enc.rv.val = <<123, 34, 97, 34, 58, 49, 125>>

\* C8 witness: a SignalK delta has been formatted.
C8_Witness ==
  /\ FormattedSignalk
  /\ enc.row["raw_data"] = RawSignalk
  /\ Len(enc.rv.val) = 7

\* format() has returned for messageKind 0183
Formatted0183 ==
  /\ enc.called
  /\ enc.msg_type = T0183

\* the bytes of the token <0D><0A>
CrLfTokenBytes == <<60, 48, 68, 62, 60, 48, 65, 62>>

\* the bytes b end with the bytes e
BytesEndWith(b, e) ==
  Len(e) <= Len(b) /\ \A i \in 1..Len(e) : b[Len(b) - Len(e) + i] = e[i]

\* the bytes e occur in the bytes b
BytesOccur(e, b) ==
  \E k \in 0..(Len(b) - Len(e)) : \A i \in 1..Len(e) : b[k + i] = e[i]

RECURSIVE EscapeCrLf(_)
\* the bytes b with every CR-LF written as the token again
EscapeCrLf(b) ==
  IF Len(b) < 2 THEN b
  ELSE IF b[1] = 13 /\ b[2] = 10
       THEN CrLfTokenBytes \o EscapeCrLf(SubSeq(b, 3, Len(b)))
       ELSE <<b[1]>> \o EscapeCrLf(Tail(b))

\* C15 as claimed: for messageKind 0183, format returns raw_data unchanged
\* whenever raw_data does not end with the token <0D><0A> (even if the token
\* occurs elsewhere in it), returns raw_data with that trailing token (and
\* nothing else) translated to CR-LF when it does end with it, and returns
\* an empty result when the row has no raw_data.
C15_0183TrailingTokenTranslated ==
  Formatted0183 =>
    /\ enc.rv.exc = ""
    /\ "raw_data" \notin DOMAIN enc.row => enc.rv.val = <<>>
    /\ "raw_data" \in DOMAIN enc.row =>
         LET raw == StrEncode(enc.row["raw_data"])
         IN  IF BytesEndWith(raw, CrLfTokenBytes)
             THEN enc.rv.val =
                    SubSeq(raw, 1, Len(raw) - 8) \o <<13, 10>>
             ELSE enc.rv.val = raw

\* C15 as amended: raw_data unchanged when it does not end with the token,
\* empty when the row has no raw_data, and when raw_data ends with the
\* token every occurrence of the token in it is translated to CR-LF, the
\* trailing one and those before it: no token is left in the result, and
\* writing its CR-LFs as tokens again gives raw_data back.  The line
\* $A<0D><0A>$B<0D><0A> comes out as $A CR LF $B CR LF.
C15_0183EveryTokenTranslated ==
  Formatted0183 =>
    /\ enc.rv.exc = ""
    /\ "raw_data" \notin DOMAIN enc.row => enc.rv.val = <<>>
    /\ "raw_data" \in DOMAIN enc.row =>
         LET raw == StrEncode(enc.row["raw_data"])
         IN  IF BytesEndWith(raw, CrLfTokenBytes)
             THEN /\ ~BytesOccur(CrLfTokenBytes, enc.rv.val)
                  /\ BytesEndWith(enc.rv.val, <<13, 10>>)
                  /\ EscapeCrLf(enc.rv.val) = raw
                  /\ enc.row["raw_data"] =
                       <<"$","A">> \o CrLfToken \o <<"$","B">> \o CrLfToken
                       => enc.rv.val = <<36, 65, 13, 10, 36, 66, 13, 10>>
             ELSE enc.rv.val = raw

\* C15 witness: a line with the token inside and at its end has been
\* formatted.
C15_Witness ==
  /\ Formatted0183
  /\ "raw_data" \in DOMAIN enc.row
  /\ enc.row["raw_data"] =
       <<"$","A">> \o CrLfToken \o <<"$","B">> \o CrLfToken
  /\ Len(enc.rv.val) = 8

\* raw is a frame of at least 13 tokens, each two hex digits
WellFormedFrame(raw) ==
  LET tokens == StrSplit(raw)
  IN  /\ Len(tokens) >= 13
      /\ \A i \in 1..Len(tokens) :
           /\ Len(tokens[i]) = 2
           /\ IsHexDigit(tokens[i][1])
           /\ IsHexDigit(tokens[i][2])

\* format() has returned, or raised, for messageKind 2000 on a well-formed
\* frame whose received_at is a non-negative integer
Called2000AtInteger ==
  /\ enc.called
  /\ enc.msg_type = T2000
  /\ {"received_at", "raw_data"} \subseteq DOMAIN enc.row
  /\ WellFormedFrame(enc.row["raw_data"])
  /\ enc.row["received_at"] # <<>>
  /\ \A i \in 1..Len(enc.row["received_at"]) :
       IsDigit(enc.row["received_at"][i])

\* b is the code point of a hex digit, either case
IsHexCode(b) == b \in 48..57 \/ b \in 65..70 \/ b \in 97..102

\* the encoded frame is "AHHMMSS.mmm", the time of day of ms, then a blank,
\* ps and pf in two hex digits each, one hex digit of prio, a blank, the
\* PGN in hex without padding, a blank, the payload and CR-LF
HeaderIs(ms) ==
  LET v   == enc.rv.val
      HH  == (ms \div 3600000) % 24
      MM  == (ms \div 60000) % 60
      SS  == (ms \div 1000) % 60
      mmm == ms % 1000
      pgn == HexCodes(ClaimedPgn)
  IN  /\ Len(v) >= 21 + Len(pgn)
      /\ SubSeq(v, 1, 12) =
           << 65, 48 + (HH \div 10), 48 + (HH % 10), 48 + (MM \div 10),
              48 + (MM % 10), 48 + (SS \div 10), 48 + (SS % 10), 46,
              48 + (mmm \div 100), 48 + ((mmm \div 10) % 10),
              48 + (mmm % 10), 32 >>
      /\ SubSeq(v, 13, 16) =
           << HexDigitCode(FrameByte(3) \div 16), HexDigitCode(FrameByte(3) % 16),
              HexDigitCode(FrameByte(4) \div 16), HexDigitCode(FrameByte(4) % 16) >>
      /\ IsHexCode(v[17])
      /\ PgnFieldIs(pgn)
      /\ \A i \in (20 + Len(pgn))..(Len(v) - 2) : IsHexCode(v[i])
      /\ SubSeq(v, Len(v) - 1, Len(v)) = <<13, 10>>

\* C16 as claimed: for every non-negative integer received_at
\* (milliseconds since the epoch) format_2000 emits a header of fixed shape
\* 'A' HH MM SS '.' mmm with HH = (ms div 3600000) mod 24,
\* MM = (ms div 60000) mod 60, SS = (ms div 1000) mod 60, mmm = ms mod 1000,
\* each zero-padded, followed by a space, 2-hex-digit ps, 2-hex-digit pf,
\* exactly one hex digit of prio, a space, the pgn in hex without padding,
\* a space, the payload and CR-LF.
C16_HeaderForEveryTimestamp ==
  Called2000AtInteger =>
    /\ enc.rv.exc = ""
    /\ HeaderIs(DecVal(enc.row["received_at"]))

\* received_at of 2^33 seconds: below it a double holds ms / 1000 to less
\* than half a microsecond
ExactLimit == <<"8","5","8","9","9","3","4","5","9","2","0","0","0">>

\* C16 as amended: for every non-negative integer received_at below
\* 8589934592000 (2^33 seconds, in the year 2242) format_2000 emits the
\* header and frame of that shape; for a received_at of 253402300800000
\* (the year 10000) or more it emits no frame and raises ValueError or
\* OverflowError.
C16_HeaderUntilYear2242 ==
  Called2000AtInteger =>
    /\ DecLess(enc.row["received_at"], ExactLimit) =>
         /\ enc.rv.exc = ""
         /\ HeaderIs(DecVal(enc.row["received_at"]))
    /\ ~DecLess(enc.row["received_at"], YearLimit) =>
         enc.rv.exc \in {"ValueError", "OverflowError"}

\* C16 witness: a frame received 1 day, 1 hour, 1 minute, 1 second and
\* 1 millisecond after the epoch has been encoded with the time of day
\* 010101.001.
C16_Witness ==
  /\ Called2000AtInteger
  /\ enc.row["received_at"] = <<"9","0","0","6","1","0","0","1">>
  /\ enc.rv.exc = ""
  /\ SubSeq(enc.rv.val, 1, 12) =
       <<65, 48, 49, 48, 49, 48, 49, 46, 48, 48, 49, 32>>

\* the payload field of the encoded frame: the bytes between the blank
\* after the PGN and the closing CR-LF
PayloadField ==
  SubSeq(enc.rv.val, 20 + Len(HexCodes(ClaimedPgn)), Len(enc.rv.val) - 2)

\* C17: in format_2000 the payload field is the verbatim concatenation of
\* exactly payload_size whitespace tokens, those at indices
\* 13 .. 12 + payload_size of raw_data, where payload_size is the hex value
\* of token 12; a successfully encoded frame therefore always carries
\* 2 * payload_size hex digits of payload.  (Tokens are counted from 0 in
\* the claim and from 1 here.)
C17_PayloadIsPayloadSizeTokens ==
  (Encoded2000 /\ WellFormedFrame(enc.row["raw_data"])) =>
    LET tokens == StrSplit(enc.row["raw_data"])
        payload_size == HexVal(tokens[13])
    IN  /\ Len(tokens) >= 13 + payload_size
        /\ PayloadField =
             StrEncode(StrJoin(SubSeq(tokens, 14, 13 + payload_size)))
        /\ Len(PayloadField) = 2 * payload_size

\* format() has returned, or raised, for messageKind 2000 on a bad row: one
\* that lacks received_at or raw_data, one whose received_at does not
\* parse, one whose raw_data is not valid hex or is shorter than the six
\* bytes and thirteen tokens format_2000 reads
BadRow2000 ==
  /\ enc.called
  /\ enc.msg_type = T2000
  /\ \/ "received_at" \notin DOMAIN enc.row
     \/ "raw_data" \notin DOMAIN enc.row
     \/ ~FloatOk(enc.row["received_at"])
     \/ LET raw == enc.row["raw_data"]
            digits == StrReplace(StrStrip(raw), <<" ">>, <<>>)
        IN  \/ \E i \in 1..Len(digits) : ~IsHexDigit(digits[i])
            \/ Len(digits) % 2 = 1
            \/ Len(digits) < 12
            \/ Len(StrSplit(raw)) < 13

\* C18: in format_2000, a row missing received_at or raw_data, a row with
\* an unparsable received_at, and a row whose raw_data is too short or not
\* valid hex all surface as the same bad-row error (ValueError), the one
\* SignalkServer._send_rows catches per row.
C18_BadRowIsValueError ==
  BadRow2000 =>
    /\ enc.rv.exc = "ValueError"
    /\ Caught("signalk", enc.rv.exc)

----------------------------------------------------------------------------
(* Properties of the transports *)

\* C3: in every transport and every pass the pacing clock is unset when the
\* pass begins, and the first row yielded in the pass incurs no pacing
\* delay (time.sleep is not called for it).  Checked under SpecSignalk,
\* SpecTcp and SpecUdp; it fails under SpecSignalk.
C3_FirstRowOfPassUnpaced ==
  \A t \in Threads :
    /\ th[t].pc = "pass" => timestamp = None
    /\ (th[t].pc \in {"row", "raised"} /\ th[t].nyield = 0) => ~th[t].paced

\* C9: a row on which MsgFormat.format fails with a row-level error (the
\* ValueError of an unparsable timestamp or an undecodable hex payload)
\* never aborts a pass: no transport thread ends with that exception.
\* Checked under SpecTcp (and SpecUdp); it fails under both.
C9_FormatErrorNeverAbortsPass ==
  \A t \in Threads :
    ~(th[t].pc = "raised" /\ th[t].exc_at = "format"
        /\ th[t].exc = "ValueError")

\* C10: in the SignalK role at most one client is ever served: once a
\* handle_client has started, no second one runs.
C10_AtMostOneClientServed ==
  Cardinality({t \in Handlers : th[t].pc # "idle"}) <= 1

\* thread t may still send a row: it is inside its loop of passes
MaySend(t) == th[t].pc \in {"pass", "next", "row", "end"}

\* C11: in the SignalK role the client connection is closed, all_played_evt
\* is set and the listener is shut down only after the last row of the last
\* of the count passes has been sent, in the order last send,
\* websocket.close(), all_played_evt.set(), ws_server.shutdown(): a closed
\* connection belongs to a handler that has played its count passes, the
\* event is set only after a close, and once the listener is shut down the
\* event is set and no handler has a row left to send.
C11_CloseSetShutdownAfterLastSend ==
  /\ \A t \in Handlers :
       net.conn[t] = "closed" =>
         (th[t].i = args.count /\ th[t].pc \in {"closed", "done"})
  /\ net.all_played_evt => \E t \in Handlers : net.conn[t] = "closed"
  /\ net.sock = "closed" =>
       (net.all_played_evt /\ \A t \in Handlers : ~MaySend(t))

\* C11, the part the code keeps: within one handle_client the order is last
\* send, close, set, and the listener is shut down only after some handler
\* has set the event.
C11_OrderWithinHandler ==
  /\ \A t \in Handlers :
       net.conn[t] = "closed" =>
         (th[t].i = args.count /\ th[t].pc \in {"closed", "done"})
  /\ net.all_played_evt =>
       \E t \in Handlers : net.conn[t] = "closed" /\ th[t].pc = "done"
  /\ net.sock = "closed" => net.all_played_evt

\* the lines of the file whose protocol holds the tag, in file order
MatchingLines ==
  { k \in 2..Len(logfile) : TagInProtocol(logfile[k]) }

\* the lines thread t sent in pass p
LinesSent(t, p) ==
  { wire[t][n].line : n \in { m \in 1..Len(wire[t]) : wire[t][m].pass = p } }

\* C13: TcpServer accepts exactly one client connection and uses it for all
\* count passes; within a pass rows are sent in source order; pass N+1 does
\* not start before the last row of pass N has been sent and the file has
\* been rewound and the pacing clock reset; the listening and the client
\* socket are shut down and closed only after all count passes have
\* completed.
C13_TcpOneClientSequentialPasses ==
  /\ \A t \in Handlers : net.conn[t] = "none" /\ wire[t] = <<>>
  /\ net.conn[0] = "none" => wire[0] = <<>>
  /\ \A n \in 2..Len(wire[0]) :
       \/ wire[0][n - 1].pass < wire[0][n].pass
       \/ /\ wire[0][n - 1].pass = wire[0][n].pass
          /\ wire[0][n - 1].line < wire[0][n].line
  /\ \A n \in 1..Len(wire[0]) :
       /\ wire[0][n].pass <= th[0].i
       /\ wire[0][n].pass = th[0].i =>
            th[0].pc \in {"next", "row", "end", "raised"}
  /\ th[0].pc = "pass" => (offset = 0 /\ timestamp = None)
  /\ \A p \in 0..(th[0].i - 1) : LinesSent(0, p) = MatchingLines
  /\ (net.sock = "closed" \/ net.conn[0] = "closed") =>
       (th[0].i = args.count /\ th[0].pc = "done")

\* C13 witness: two passes of a file with two matching rows have been sent
\* on the one connection, and both sockets are closed.
C13_Witness ==
  /\ args.role = "tcp"
  /\ args.count = 2
  /\ Len(wire[0]) = 4
  /\ wire[0][2].pass = 0
  /\ wire[0][3].pass = 1
  /\ net.sock = "closed"
  /\ net.conn[0] = "closed"

\* the encoded rows thread t has sent in pass p, in the order sent
DataOfPass(t, p) ==
  LET sent == SelectSeq(wire[t], LAMBDA m : m.pass = p)
  IN  [n \in 1..Len(sent) |-> sent[n].data]

\* a is a prefix of b
IsPrefix(a, b) == Len(a) <= Len(b) /\ SubSeq(b, 1, Len(a)) = a

\* C19: with a single client and count >= 2, every repeat pass delivers
\* exactly the same sequence of encoded rows as the first pass (a pass
\* under way has delivered a prefix of it); the header line, which the csv
\* reader re-reads as a data record after seek(0), is never delivered and
\* never disturbs the pacing clock: its protocol field, the word
\* "protocol", holds none of the tags, so the filter drops it; the clock
\* stays unset until the first data row of the pass is yielded, and that
\* row is not paced.  Checked under SpecTcp.
C19_RepeatPassSameAsFirst ==
  /\ \A p \in 1..th[0].i :
       IF p < th[0].i
       THEN DataOfPass(0, p) = DataOfPass(0, 0)
       ELSE IsPrefix(DataOfPass(0, p), DataOfPass(0, 0))
  /\ \A n \in 1..Len(wire[0]) : wire[0][n].line # 1
  /\ "protocol" \in DOMAIN logfile[1] =>
       ~(th[0].pc \in {"row", "raised"} /\ th[0].line = 1)
  /\ (th[0].i >= 1 /\ th[0].nyield = 0
        /\ th[0].pc \in {"next", "row", "raised", "end"})
       => (timestamp = None /\ ~th[0].paced)

\* C19 witness: a file of two matching rows with different timestamps has
\* been played twice; the second pass re-read the header and sent the two
\* rows again.
C19_Witness ==
  /\ args.role = "tcp"
  /\ args.count = 2
  /\ th[0].pc = "done"
  /\ Len(logfile) = 3
  /\ DOMAIN logfile[1] = Columns
  /\ logfile[2]["received_at"] # logfile[3]["received_at"]
  /\ Len(wire[0]) = 4
  /\ wire[0][3] = [pass |-> 1, line |-> 2, data |-> wire[0][1].data]
  /\ wire[0][4] = [pass |-> 1, line |-> 3, data |-> wire[0][2].data]

----------------------------------------------------------------------------
(* Properties of a whole run, checked under SpecMain *)

\* a send failed because the peer had left
TransportFailed ==
  \E t \in Threads : th[t].pc = "raised" /\ th[t].exc_at = "send"

\* main() is over: it returned, or an exception left it
MainEnded == th[0].pc \in {"done", "raised"}

\* C12: a transport failure ends the run in every role: once a send has
\* raised a connection error because the peer left, the process eventually
\* terminates; SignalkServer.run does not stay blocked on
\* all_played_evt.wait() after its client's handler has died.
C12_TransportFailureEndsRun == TransportFailed ~> MainEnded

\* the rows the tag selects are well-formed and their timestamps do not
\* decrease: each has a received_at that parses, and no later one is
\* earlier than one before it
WellFormedLog ==
  /\ \A k \in MatchingLines : Parses(logfile[k])
  /\ \A j, k \in MatchingLines :
       j < k => ReceivedAt(logfile[j]) <= ReceivedAt(logfile[k])

\* the peer has left
PeerGone == \E t \in Threads : net.conn[t] = "gone"

\* main() has returned after exactly count passes, each of them with every
\* selected row sent, and with every socket and connection closed
Terminated ==
  /\ th[0].pc = "done"
  /\ th[Player].i = args.count
  /\ \A p \in 0..(args.count - 1) : LinesSent(Player, p) = MatchingLines
  /\ \A t \in Threads : net.conn[t] \in {"none", "closed"}
  /\ net.sock \in {"none", "closed"}
  /\ args.role # "udp" => (net.sock = "closed" /\ net.conn[Player] = "closed")

\* C14: for a finite log whose matching rows are well-formed with
\* non-decreasing timestamps and a peer that connects and never
\* disconnects, every role terminates: exactly count passes are played,
\* all sockets and connections are closed, and main() returns.
C14_EveryRoleTerminates ==
  (WellFormedLog /\ []~PeerGone) => <>Terminated

\* C14 witness: the signalk role has played a file with a selected row
\* twice and main() has returned.
C14_Witness ==
  /\ Terminated
  /\ args.role = "signalk"
  /\ args.count = 2
  /\ MatchingLines # {}
  /\ Len(wire[1]) = 2 * Cardinality(MatchingLines)

=============================================================================
